---------------------------- MODULE Spec2Model ----------------------------
(***************************************************************************)
(* JSON Schema generation of ytt (pkg/schema/jsonschema.go).               *)
(*                                                                         *)
(* JSONSchemaDocument.calculateProperties walks a tree of schema types and *)
(* returns a yamlmeta.Map of JSON Schema keywords; AsDocument prepends the *)
(* $schema/$id/description envelope to the map computed for the document   *)
(* type.                                                                   *)
(*                                                                         *)
(* Values of the output tree are records:                                  *)
(*   [lit |-> s]         a scalar literal (string, number, boolean)        *)
(*   [isNil |-> TRUE]    Go's nil interface value                          *)
(*   [ArrItems |-> seq]  a *yamlmeta.Array, seq its items' values          *)
(*   [Items |-> seq]     a *yamlmeta.Map, seq its MapItems [Key, Value]    *)
(* A call that panics yields [panic |-> message, variant |-> type name].   *)
(***************************************************************************)
EXTENDS Integers, Sequences, FiniteSets, TLC

VARIABLES schemaVal, result, pc

vars == <<schemaVal, result, pc>>

(***************************************************************************)
(* Bounds of the model.                                                    *)
(***************************************************************************)
\* the largest number of fields of a generated MapType
MaxFields == 2

(***************************************************************************)
(* Output values (yamlmeta).                                               *)
(***************************************************************************)
Lit(s) == [lit |-> s]

Nil == [isNil |-> TRUE]

YArray(values) == [ArrItems |-> values]

YMap(items) == [Items |-> items]

MapItem(key, value) == [Key |-> key, Value |-> value]

Panic(message, variant) == [panic |-> message, variant |-> variant]

IsPanic(r) == "panic" \in DOMAIN r

IsLit(v) == "lit" \in DOMAIN v

IsYArray(v) == "ArrItems" \in DOMAIN v

IsYMap(v) == "Items" \in DOMAIN v

(***************************************************************************)
(* Keyword names (constants of package schema, defined beside the OpenAPI  *)
(* generator).                                                             *)
(***************************************************************************)
typeProp == "type"

additionalPropsProp == "additionalProperties"

formatProp == "format"

itemsProp == "items"

propertiesProp == "properties"

defaultProp == "default"

(***************************************************************************)
(* openAPIKeys: the comparator sort.Sort is given.  A fixed priority over  *)
(* keyword names; a name outside the list ranks first.                     *)
(***************************************************************************)
KeyRank(key) ==
  CASE key = "title" -> 0
    [] key = typeProp -> 1
    [] key = additionalPropsProp -> 2
    [] key = formatProp -> 3
    [] key = "description" -> 6
    [] key = itemsProp -> 9
    [] key = propertiesProp -> 10
    [] key = defaultProp -> 11
    [] key = "minLength" -> 12
    [] OTHER -> 0

Less(a, b) == KeyRank(a.Key) < KeyRank(b.Key)

(***************************************************************************)
(* sort.Sort on a slice of at most 12 elements is an insertion sort: each  *)
(* element moves left while it is Less than its left neighbour.            *)
(***************************************************************************)
RECURSIVE InsertLeft(_, _)
InsertLeft(sorted, x) ==
  IF sorted = <<>> THEN <<x>>
  ELSE IF Less(x, sorted[Len(sorted)])
       THEN Append(InsertLeft(SubSeq(sorted, 1, Len(sorted) - 1), x),
                   sorted[Len(sorted)])
       ELSE Append(sorted, x)

RECURSIVE InsertionSort(_, _)
InsertionSort(done, rest) ==
  IF rest = <<>> THEN done
  ELSE InsertionSort(InsertLeft(done, Head(rest)), Tail(rest))

Sort(items) == InsertionSort(<<>>, items)

(***************************************************************************)
(* The collaborators of calculateProperties on a type node.                *)
(***************************************************************************)
collectDocumentation(typedValue) == typedValue.documentation

convertValidations(typedValue) == typedValue.validations

openAPITypeFor(typedValue) ==
  IF typedValue.scalar = "float" THEN "number" ELSE typedValue.scalar

String(typedValue) == typedValue.scalar

GetDefaultValue(typedValue) == typedValue.defaultValue

GetValueType(typedValue) == typedValue.valueType

(***************************************************************************)
(* calculateProperties, one operator per case of its type switch.          *)
(***************************************************************************)
RECURSIVE calculateProperties(_)

DocumentCase(typedValue) ==
  LET r == calculateProperties(GetValueType(typedValue))
  IN  IF IsPanic(r) THEN r
      ELSE YMap(Sort(r.Items \o convertValidations(typedValue)))

\* mutant: the properties hold Convert of each field's value type, the
\* field's own validations lost
MapProperties_OfValueTypes(typedValue) ==
  [i \in 1..Len(typedValue.Items) |->
     MapItem(typedValue.Items[i].Key,
             calculateProperties(GetValueType(typedValue.Items[i])))]

MapProperties(typedValue) ==
  [i \in 1..Len(typedValue.Items) |->
     MapItem(typedValue.Items[i].Key, calculateProperties(typedValue.Items[i]))]

MapCase(typedValue) ==
  LET properties == MapProperties(typedValue)
      failed == {i \in 1..Len(properties) : IsPanic(properties[i].Value)}
      first == CHOOSE i \in failed : \A k \in failed : i <= k
      items == collectDocumentation(typedValue)
               \o convertValidations(typedValue)
               \o << MapItem(typeProp, Lit("object")),
                     MapItem(additionalPropsProp, Lit("false")),
                     MapItem(propertiesProp, YMap(properties)) >>
  IN  IF failed # {} THEN properties[first].Value
      ELSE YMap(Sort(items))

MapItemCase(typedValue) ==
  LET r == calculateProperties(GetValueType(typedValue))
  IN  IF IsPanic(r) THEN r
      ELSE YMap(Sort(r.Items \o convertValidations(typedValue)))

ArrayCase(typedValue) ==
  LET valueType == GetValueType(typedValue)
  IN  IF valueType.kind # "ArrayItem"
      THEN Panic("interface conversion", valueType.kind)
      ELSE LET properties == calculateProperties(GetValueType(valueType))
               items == collectDocumentation(typedValue)
                        \o convertValidations(typedValue)
                        \o << MapItem(typeProp, Lit("array")),
                              MapItem(defaultProp, GetDefaultValue(typedValue)),
                              MapItem(itemsProp, properties) >>
           IN  IF IsPanic(properties) THEN properties
               ELSE YMap(Sort(items))

\* mutant: the scalar's entries are returned in the order appended
ScalarCase_Unsorted(typedValue) ==
  YMap(collectDocumentation(typedValue)
       \o convertValidations(typedValue)
       \o << MapItem(defaultProp, GetDefaultValue(typedValue)),
             MapItem(typeProp, Lit(openAPITypeFor(typedValue))) >>
       \o (IF String(typedValue) = "float"
           THEN << MapItem(formatProp, Lit("float")) >>
           ELSE << >>))

\* mutant: an unset default value adds no `default` entry
ScalarCase_OmitsNilDefault(typedValue) ==
  YMap(Sort(collectDocumentation(typedValue)
            \o convertValidations(typedValue)
            \o (IF GetDefaultValue(typedValue) = Nil THEN << >>
                ELSE << MapItem(defaultProp, GetDefaultValue(typedValue)) >>)
            \o << MapItem(typeProp, Lit(openAPITypeFor(typedValue))) >>
            \o (IF String(typedValue) = "float"
                THEN << MapItem(formatProp, Lit("float")) >>
                ELSE << >>)))

\* mutant: the float kind gets no `format` entry
ScalarCase_NoFormat(typedValue) ==
  YMap(Sort(collectDocumentation(typedValue)
            \o convertValidations(typedValue)
            \o << MapItem(defaultProp, GetDefaultValue(typedValue)),
                  MapItem(typeProp, Lit(openAPITypeFor(typedValue))) >>))

ScalarCase(typedValue) ==
  LET items == collectDocumentation(typedValue)
               \o convertValidations(typedValue)
               \o << MapItem(defaultProp, GetDefaultValue(typedValue)),
                     MapItem(typeProp, Lit(openAPITypeFor(typedValue))) >>
               \o (IF String(typedValue) = "float"
                   THEN << MapItem(formatProp, Lit("float")) >>
                   ELSE << >>)
  IN  YMap(Sort(items))

\* mutant: the wrapped type's entries are copied through, `type` included
Nullable_Unchanged(properties) == properties

Nullable(properties) ==
  [i \in 1..Len(properties) |->
     IF properties[i].Key = "type"
     THEN MapItem("type", YArray(<< properties[i].Value, Lit("null") >>))
     ELSE properties[i]]

NullCase(typedValue) ==
  LET properties == calculateProperties(GetValueType(typedValue))
      items == collectDocumentation(typedValue)
               \o convertValidations(typedValue)
               \o Nullable(properties.Items)
  IN  IF IsPanic(properties) THEN properties
      ELSE YMap(Sort(items))

AnyCase(typedValue) ==
  LET items == collectDocumentation(typedValue)
               \o convertValidations(typedValue)
               \o << MapItem(typeProp,
                             YArray(<< Lit("null"), Lit("string"), Lit("number"),
                                       Lit("object"), Lit("array"),
                                       Lit("boolean") >>)),
                     MapItem(defaultProp, GetDefaultValue(typedValue)) >>
  IN  YMap(Sort(items))

\* mutant: an unrecognised variant yields an empty object
DefaultCase_EmptyMap(schemaValue) == YMap(<< >>)

DefaultCase(schemaValue) == Panic("Unrecognized type", schemaValue.kind)

calculateProperties(schemaValue) ==
  CASE schemaValue.kind = "Document" -> DocumentCase(schemaValue)
    [] schemaValue.kind = "Map" -> MapCase(schemaValue)
    [] schemaValue.kind = "MapItem" -> MapItemCase(schemaValue)
    [] schemaValue.kind = "Array" -> ArrayCase(schemaValue)
    [] schemaValue.kind = "Scalar" -> ScalarCase(schemaValue)
    [] schemaValue.kind = "Null" -> NullCase(schemaValue)
    [] schemaValue.kind = "Any" -> AnyCase(schemaValue)
    [] OTHER -> DefaultCase(schemaValue)

(***************************************************************************)
(* AsDocument.                                                             *)
(***************************************************************************)
Envelope ==
  << MapItem("$schema", Lit("https://json-schema.org/draft/2020-12/schema")),
     MapItem("$id", Lit("https://example.biz/schema/ytt/data-values.json")),
     MapItem("description", Lit("Schema for data values, generated by ytt")) >>

\* mutant: the envelope is appended after the root's entries
AsDocument_EnvelopeLast(docType) ==
  LET jsonSchemaProperties == calculateProperties(docType)
  IN  IF IsPanic(jsonSchemaProperties) THEN jsonSchemaProperties
      ELSE YMap(jsonSchemaProperties.Items \o Envelope)

AsDocument(docType) ==
  LET jsonSchemaProperties == calculateProperties(docType)
  IN  IF IsPanic(jsonSchemaProperties) THEN jsonSchemaProperties
      ELSE YMap(Envelope \o jsonSchemaProperties.Items)

(***************************************************************************)
(* Type nodes (pkg/schema types, read through their getters).              *)
(***************************************************************************)
DocumentType(valueType, validations) ==
  [kind |-> "Document", valueType |-> valueType, validations |-> validations]

MapType(items, documentation, validations) ==
  [kind |-> "Map", Items |-> items, documentation |-> documentation,
   validations |-> validations]

MapItemType(key, valueType, validations) ==
  [kind |-> "MapItem", Key |-> key, valueType |-> valueType,
   validations |-> validations]

ArrayType(valueType, defaultValue, documentation, validations) ==
  [kind |-> "Array", valueType |-> valueType, defaultValue |-> defaultValue,
   documentation |-> documentation, validations |-> validations]

ArrayItemType(valueType) == [kind |-> "ArrayItem", valueType |-> valueType]

ScalarType(scalar, defaultValue, documentation, validations) ==
  [kind |-> "Scalar", scalar |-> scalar, defaultValue |-> defaultValue,
   documentation |-> documentation, validations |-> validations]

NullType(valueType, documentation, validations) ==
  [kind |-> "Null", valueType |-> valueType, documentation |-> documentation,
   validations |-> validations]

AnyType(defaultValue, documentation, validations) ==
  [kind |-> "Any", defaultValue |-> defaultValue,
   documentation |-> documentation, validations |-> validations]

\* a value whose dynamic type is none of the cases of the type switch
ForeignType == [kind |-> "Foreign"]

(***************************************************************************)
(* The inputs explored.                                                    *)
(***************************************************************************)
ScalarKinds == {"string", "integer", "float", "boolean"}

DefaultValues == {Nil, Lit("0")}

NoEntries == << >>

Documentations ==
  {NoEntries, << MapItem("title", Lit("T")), MapItem("description", Lit("D")) >>}

Validations == {NoEntries, << MapItem("minLength", Lit("1")) >>}

FieldNames == {"type", "default", "items"}

ScalarTypes ==
  {ScalarType(k, d, doc, val) :
     k \in ScalarKinds, d \in DefaultValues, doc \in Documentations,
     val \in Validations}

AnyTypes ==
  {AnyType(d, doc, val) :
     d \in DefaultValues, doc \in Documentations, val \in Validations}

LeafTypes == ScalarTypes \cup AnyTypes \cup {ForeignType}

ArrayItemTypes == {ArrayItemType(v) : v \in LeafTypes}

\* an array's element is an ArrayItemType upstream; the Go field is of the
\* interface type, so one array wrapping a bare scalar is explored too
ArrayTypes ==
  {ArrayType(vt, d, doc, val) :
     vt \in ArrayItemTypes \cup {ScalarType("string", Lit("0"), NoEntries, NoEntries)},
     d \in {Nil, YArray(<< >>)}, doc \in Documentations, val \in Validations}

NullTypes ==
  {NullType(v, doc, val) :
     v \in LeafTypes \cup ArrayTypes \cup ArrayItemTypes,
     doc \in Documentations, val \in Validations}

NestedNullTypes ==
  {NullType(NullType(v, doc, NoEntries), NoEntries, val) :
     v \in LeafTypes, doc \in Documentations, val \in Validations}

InnerMapType ==
  MapType(<< MapItemType("default",
                         ScalarType("float", Nil, NoEntries, NoEntries),
                         NoEntries),
             MapItemType("type",
                         ScalarType("string", Lit("0"), NoEntries, NoEntries),
                         NoEntries) >>,
          NoEntries, NoEntries)

FieldValueTypes ==
  { ScalarType("string", Lit("0"), NoEntries, << MapItem("minLength", Lit("1")) >>),
    NullType(AnyType(Nil, NoEntries, NoEntries), NoEntries, NoEntries),
    ArrayType(ArrayItemType(ScalarType("float", Lit("0"), NoEntries, NoEntries)),
              YArray(<< >>), NoEntries, NoEntries),
    InnerMapType,
    ForeignType }

MapItemTypes ==
  {MapItemType(k, v, val) :
     k \in FieldNames, v \in FieldValueTypes, val \in Validations}

RECURSIVE FieldLists(_)
FieldLists(n) ==
  IF n = 0 THEN {<< >>}
  ELSE LET shorter == FieldLists(n - 1)
       IN  shorter \cup
           {Append(l, f) : l \in {s \in shorter : Len(s) = n - 1},
                           f \in MapItemTypes}

\* the fields of a map have distinct names
DistinctNames(l) == \A i, j \in 1..Len(l) : i # j => l[i].Key # l[j].Key

MapTypes ==
  {MapType(l, doc, val) :
     l \in {fl \in FieldLists(MaxFields) : DistinctNames(fl)},
     doc \in Documentations, val \in Validations}

DocumentTypes ==
  {DocumentType(v, val) :
     v \in MapTypes \cup LeafTypes \cup ArrayTypes \cup NullTypes,
     val \in Validations}

TypeNodes ==
  LeafTypes \cup ArrayItemTypes \cup ArrayTypes \cup NullTypes
  \cup NestedNullTypes \cup MapItemTypes \cup MapTypes \cup DocumentTypes

(***************************************************************************)
(* The state machine: a type node is handed to the generator, which either *)
(* converts it (calculateProperties) or, for a document type, builds the   *)
(* whole document (NewJSONSchemaDocument(docType).AsDocument()).           *)
(***************************************************************************)
NoResult == [none |-> TRUE]

Init ==
  /\ schemaVal \in TypeNodes
  /\ result = NoResult
  /\ pc = "start"

Convert ==
  /\ pc = "start"
  /\ result' = calculateProperties(schemaVal)
  /\ pc' = "converted"
  /\ UNCHANGED schemaVal

Assemble ==
  /\ pc = "start"
  /\ schemaVal.kind = "Document"
  /\ result' = AsDocument(schemaVal)
  /\ pc' = "assembled"
  /\ UNCHANGED schemaVal

Next == Convert \/ Assemble

Spec == Init /\ [][Next]_vars

(***************************************************************************)
(* Reading an output object.                                               *)
(***************************************************************************)
HasKey(items, key) == \E i \in 1..Len(items) : items[i].Key = key

KeyCount(items, key) == Cardinality({i \in 1..Len(items) : items[i].Key = key})

ValuesOf(items, key) ==
  {items[i].Value : i \in {k \in 1..Len(items) : items[k].Key = key}}

Count(items, e) == Cardinality({i \in 1..Len(items) : items[i] = e})

Entries(items) == {items[i] : i \in 1..Len(items)}

IsSorted(items) ==
  \A i, j \in 1..Len(items) : i < j => ~Less(items[j], items[i])

NoDuplicateKeys(items) ==
  \A i, j \in 1..Len(items) : i # j => items[i].Key # items[j].Key

HasScalarType(items) ==
  /\ KeyCount(items, "type") = 1
  /\ \A v \in ValuesOf(items, "type") : IsLit(v)

Converted == pc = "converted" /\ ~IsPanic(result)

Assembled == pc = "assembled" /\ ~IsPanic(result)

(***************************************************************************)
(* C1. Convert(Null(T)) against Convert(T).                                *)
(***************************************************************************)
WrappedProperties == calculateProperties(GetValueType(schemaVal)).Items

\* C1 as stated: Convert(Null(T)) is Convert(T) with a scalar `type` value t
\* replaced by the sequence [t, "null"], every other entry unchanged and no
\* entry added.
C1_Original ==
  (Converted /\ schemaVal.kind = "Null") =>
     result.Items =
       [i \in 1..Len(WrappedProperties) |->
          IF WrappedProperties[i].Key = "type" /\ IsLit(WrappedProperties[i].Value)
          THEN MapItem("type", YArray(<< WrappedProperties[i].Value, Lit("null") >>))
          ELSE WrappedProperties[i]]

\* C1, amended: the entries of Convert(Null(T)) other than `type` are those
\* of Convert(T), unchanged, together with the entries of the Null node's
\* own documentation and validations, and nothing else; there is one `type`
\* entry and, when Convert(T) has a scalar `type` value t, it holds the
\* two-element sequence [t, "null"].
C1_NullRewritesScalarType ==
  (Converted /\ schemaVal.kind = "Null") =>
     LET own == collectDocumentation(schemaVal) \o convertValidations(schemaVal)
         others == {e \in Entries(result.Items) \cup Entries(own)
                            \cup Entries(WrappedProperties) : e.Key # "type"}
     IN  /\ KeyCount(result.Items, "type") = 1
         /\ HasScalarType(WrappedProperties) =>
              ValuesOf(result.Items, "type") =
                {YArray(<< t, Lit("null") >>) :
                   t \in ValuesOf(WrappedProperties, "type")}
         /\ \A e \in others :
              Count(result.Items, e) = Count(own, e) + Count(WrappedProperties, e)

C1_Witness ==
  /\ Converted
  /\ schemaVal.kind = "Null"
  /\ GetValueType(schemaVal).kind = "Scalar"
  /\ collectDocumentation(schemaVal) # NoEntries
  /\ YArray(<< Lit("integer"), Lit("null") >>) \in ValuesOf(result.Items, "type")
  /\ HasKey(result.Items, "default")

DocumentationKeys == {"title", "description"}

ValidationKeys == {"minLength"}

OmitsAbsentEntries ==
  /\ collectDocumentation(schemaVal) = NoEntries =>
       \A k \in DocumentationKeys : ~HasKey(result.Items, k)
  /\ convertValidations(schemaVal) = NoEntries =>
       \A k \in ValidationKeys : ~HasKey(result.Items, k)

C5_MapProperties ==
  (Converted /\ schemaVal.kind = "Map") =>
     /\ ValuesOf(result.Items, "type") = {Lit("object")}
     /\ KeyCount(result.Items, "type") = 1
     /\ ValuesOf(result.Items, "additionalProperties") = {Lit("false")}
     /\ KeyCount(result.Items, "additionalProperties") = 1
     /\ KeyCount(result.Items, "properties") = 1
     /\ \A p \in ValuesOf(result.Items, "properties") :
          /\ IsYMap(p)
          /\ Len(p.Items) = Len(schemaVal.Items)
          /\ \A i \in 1..Len(p.Items) :
               LET field == schemaVal.Items[i]
                   ofValue == calculateProperties(GetValueType(field)).Items
                   own == convertValidations(field)
               IN  /\ p.Items[i].Key = field.Key
                   /\ p.Items[i].Value = calculateProperties(field)
                   /\ \A e \in Entries(p.Items[i].Value.Items) \cup Entries(ofValue)
                                 \cup Entries(own) :
                        Count(p.Items[i].Value.Items, e) =
                          Count(ofValue, e) + Count(own, e)

C5_Witness ==
  /\ Converted
  /\ schemaVal.kind = "Map"
  /\ Len(schemaVal.Items) = 2
  /\ convertValidations(schemaVal.Items[2]) # NoEntries
  /\ \E p \in ValuesOf(result.Items, "properties") : Len(p.Items) = 2

(***************************************************************************)
(* C6. Scalars.                                                            *)
(***************************************************************************)
\* C6: Convert(Scalar(kind, default d)) has type = the JSON name of the
\* kind, default = d, and format = "float" exactly when the kind is float.
C6_ScalarEntries ==
  (Converted /\ schemaVal.kind = "Scalar") =>
     /\ KeyCount(result.Items, "type") = 1
     /\ ValuesOf(result.Items, "type") = {Lit(openAPITypeFor(schemaVal))}
     /\ ValuesOf(result.Items, "default") = {GetDefaultValue(schemaVal)}
     /\ HasKey(result.Items, "format") <=> String(schemaVal) = "float"
     /\ ValuesOf(result.Items, "format") \subseteq {Lit("float")}

C6_Witness ==
  /\ Converted
  /\ schemaVal.kind = "Scalar"
  /\ String(schemaVal) = "float"
  /\ GetDefaultValue(schemaVal) = Lit("0")
  /\ MapItem("format", Lit("float")) \in Entries(result.Items)
  /\ MapItem("type", Lit("number")) \in Entries(result.Items)

(***************************************************************************)
(* C7. Unrecognised variants.                                              *)
(***************************************************************************)
ClosedVariants ==
  {"Document", "Map", "MapItem", "Array", "ArrayItem", "Scalar", "Null", "Any"}

\* every node is of the closed variant set and every Array wraps an ArrayItem
RECURSIVE ClosedTree(_)
ClosedTree(node) ==
  /\ node.kind \in ClosedVariants
  /\ CASE node.kind \in {"Document", "MapItem", "ArrayItem", "Null"} ->
            ClosedTree(node.valueType)
       [] node.kind = "Array" ->
            node.valueType.kind = "ArrayItem" /\ ClosedTree(node.valueType)
       [] node.kind = "Map" ->
            \A i \in 1..Len(node.Items) : ClosedTree(node.Items[i])
       [] OTHER -> TRUE

\* the variant the traversal reaches first that no case of the type switch
\* takes ("" when there is none); an ArrayItem is taken only as the element
\* of an Array
RECURSIVE FirstUnrecognised(_)
FirstUnrecognised(node) ==
  CASE node.kind \in {"Scalar", "Any"} -> ""
    [] node.kind \in {"Document", "MapItem", "Null"} ->
         FirstUnrecognised(node.valueType)
    [] node.kind = "Array" ->
         IF node.valueType.kind = "ArrayItem"
         THEN FirstUnrecognised(node.valueType.valueType)
         ELSE node.valueType.kind
    [] node.kind = "Map" ->
         LET bad == {i \in 1..Len(node.Items) :
                       FirstUnrecognised(node.Items[i]) # ""}
         IN  IF bad = {} THEN ""
             ELSE FirstUnrecognised(
                    node.Items[CHOOSE i \in bad : \A k \in bad : i <= k])
    [] OTHER -> node.kind

Returned == pc \in {"converted", "assembled"}

\* C7 as stated: a call returns the full object or aborts, and a tree of the
\* closed variant set whose Arrays each wrap an ArrayItem never aborts.
C7_Original ==
  Returned =>
     /\ IsYMap(result) \/ IsPanic(result)
     /\ ClosedTree(schemaVal) => ~IsPanic(result)

\* C7, amended: a call returns the full object exactly when every node the
\* traversal reaches is taken by a case of the type switch, which holds of
\* every tree of the closed variant set in which an ArrayItem occurs only as
\* the element of an Array; otherwise it aborts with a diagnostic naming the
\* first offending variant reached, wherever it sits.
C7_AbortsOnFirstUnrecognised ==
  Returned =>
     IF FirstUnrecognised(schemaVal) = ""
     THEN IsYMap(result)
     ELSE IsPanic(result) /\ result.variant = FirstUnrecognised(schemaVal)

C7_Witness ==
  /\ pc = "assembled"
  /\ IsPanic(result)
  /\ result.variant = "Foreign"
  /\ GetValueType(schemaVal).kind = "Map"
  /\ Len(GetValueType(schemaVal).Items) = 2
  /\ GetValueType(GetValueType(schemaVal).Items[1]).kind # "Foreign"

(***************************************************************************)
(* The objects of an output tree.                                          *)
(***************************************************************************)
\* the schema objects nested in a schema object, itself included: those of
\* its `items` object and of every field of its `properties` object
RECURSIVE SchemaObjects(_)
SchemaObjects(items) ==
  {items} \cup
  UNION {
    LET e == items[i]
    IN  IF e.Key = itemsProp /\ IsYMap(e.Value)
        THEN SchemaObjects(e.Value.Items)
        ELSE IF e.Key = propertiesProp /\ IsYMap(e.Value)
        THEN UNION {SchemaObjects(e.Value.Items[j].Value.Items) :
                      j \in 1..Len(e.Value.Items)}
        ELSE {}
    : i \in 1..Len(items)}

\* the `properties` objects of the schema objects nested in a schema object
PropertiesObjects(items) ==
  UNION {{o[i].Value.Items :
            i \in {k \in 1..Len(o) :
                     o[k].Key = propertiesProp /\ IsYMap(o[k].Value)}}
         : o \in SchemaObjects(items)}

RootRemainder == SubSeq(result.Items, 4, Len(result.Items))

(***************************************************************************)
(* C2. Key order.                                                          *)
(***************************************************************************)
\* C2 as stated: in the assembled document the keys of every object (the
\* root after the envelope, every properties object, every field's object,
\* every items object) are sorted under the key comparator.
C2_Original ==
  Assembled =>
     \A o \in SchemaObjects(RootRemainder) \cup PropertiesObjects(RootRemainder) :
        IsSorted(o)

\* C2, amended: in the assembled document the keys of every schema object
\* (the root after the envelope, every field's object, every items object)
\* are sorted under the key comparator; a properties object is not sorted,
\* it lists the fields in the order the map declares them.
C2_SchemaObjectsSorted ==
  Assembled =>
     /\ \A o \in SchemaObjects(RootRemainder) : IsSorted(o)
     /\ GetValueType(schemaVal).kind = "Map" =>
          \A p \in ValuesOf(RootRemainder, "properties") :
             [i \in 1..Len(p.Items) |-> p.Items[i].Key] =
               [i \in 1..Len(GetValueType(schemaVal).Items) |->
                  GetValueType(schemaVal).Items[i].Key]

C2_Witness ==
  /\ Assembled
  /\ GetValueType(schemaVal).kind = "Map"
  /\ Cardinality(SchemaObjects(RootRemainder)) >= 4
  /\ \E p \in PropertiesObjects(RootRemainder) : ~IsSorted(p)

(***************************************************************************)
(* C9. Duplicate keys.                                                     *)
(***************************************************************************)
\* C9: no schema object of the assembled document (the root with its
\* envelope, a field's object, an items object) holds the same key twice.
C9_NoDuplicateKeys ==
  Assembled => \A o \in SchemaObjects(result.Items) : NoDuplicateKeys(o)

(***************************************************************************)
(* C10. The value of `type`.                                               *)
(***************************************************************************)
IsFlatType(v) ==
  \/ IsLit(v)
  \/ /\ IsYArray(v)
     /\ \A i \in 1..Len(v.ArrItems) : IsLit(v.ArrItems[i])

\* C10: every object Convert returns has a `type` entry, whose value is one
\* JSON type name or a flat sequence of JSON type names.
C10_FlatType ==
  Converted =>
     /\ HasKey(result.Items, "type")
     /\ \A v \in ValuesOf(result.Items, "type") : IsFlatType(v)

=============================================================================
